---------------------------- MODULE Spec2Model ----------------------------
(***************************************************************************)
(* Model of the OrbitEOS device simulators (src/orbiteos-simulators/src):  *)
(* the battery, grid and EV-charger models, the 32-bit register codec and  *)
(* the tick loop of ModbusSimulatorServer.                                  *)
(*                                                                         *)
(* The Python code computes in floats; the model computes in fixed point:  *)
(*   power        deci-watt  (dW, 0.1 W)                                   *)
(*   energy       deci-joule (dJ = dW * s)                                 *)
(*   SOC          1e-5 percent (SocUnit per percent)                       *)
(*   temperature  deci-degree Celsius                                      *)
(*   voltage      centi-volt, current centi-ampere (battery)               *)
(*   grid         voltage deci-volt, current centi-ampere, frequency mHz   *)
(*   EV current limit  milli-ampere                                        *)
(*   solar        power in whole watts, energy in watt-seconds             *)
(*   factors (efficiency, derating)  1e-4 (E4 = 1.0)                       *)
(* A Python int of unbounded size is a pair [hi, lo] with                  *)
(* value = hi * 65536 + lo and lo in 0..65535.                             *)
(***************************************************************************)
EXTENDS Integers, Sequences, FiniteSets, TLC

VARIABLES
    codec,      \* the codec under test: value, kind, cells produced
    battery,    \* BatterySimulator instance
    ev,         \* EVChargerSimulator instance
    grid,       \* GridSimulator instance
    clock,      \* the wall clock: seconds and hour of day
    srv,        \* ModbusSimulatorServer: tick position, accumulators, MQTT
    stores,     \* the four holding-register banks
    op          \* the operation that produced the current state, its inputs

vars == <<codec, battery, ev, grid, clock, srv, stores, op>>

----------------------------------------------------------------------------
(* Fixed-point helpers *)

SocUnit == 10^5
E4 == 10^4
Word == 2^16

Min(a, b) == IF a <= b THEN a ELSE b
Max(a, b) == IF a >= b THEN a ELSE b
Abs(x) == IF x < 0 THEN -x ELSE x

\* floor(x * m / d) for x >= 0, without leaving the 32-bit range of TLC
MulDiv(x, m, d) == (x \div d) * m + ((x % d) * m) \div d

\* x * f for a factor f in 1e-4 units, and x / f
ScaleE4(x, f) == MulDiv(x, f, E4)
DivE4(x, f) == MulDiv(x, E4, f)

\* Python int(): truncation toward zero, here from deci-units to units
TruncDeci(x) == IF x >= 0 THEN x \div 10 ELSE -((-x) \div 10)

\* Python round() to the unit, from deci-units (half away from zero)
RoundDeci(x) == IF x >= 0 THEN (x + 5) \div 10 ELSE -((-x + 5) \div 10)

----------------------------------------------------------------------------
(* The 32-bit register codec: main.py _int32_to_registers,                 *)
(* _uint32_to_registers; the decoder of the legacy battery simulator.      *)

\* a Python int as a word pair
Wide(v) == [hi |-> v \div Word, lo |-> v % Word]

WideNeg(w) == w.hi < 0

\* (value >> 16) & 0xFFFF, value & 0xFFFF
SplitWords(w) == <<w.hi % Word, w.lo>>

Int32ToRegistersSwapped(w) ==
    LET v == IF WideNeg(w) THEN [w EXCEPT !.hi = @ + Word] ELSE w
    IN  <<v.lo, v.hi % Word>>

\* _int32_to_registers: value + 0x100000000 when negative, then split
Int32ToRegisters(w) ==
    LET v == IF WideNeg(w) THEN [w EXCEPT !.hi = @ + Word] ELSE w
    IN  SplitWords(v)

\* _uint32_to_registers: int(value) & 0xFFFFFFFF, then split
Uint32ToRegisters(w) ==
    LET v == [w EXCEPT !.hi = @ % Word]
    IN  SplitWords(v)

\* (high << 16) | low, minus 0x100000000 when bit 31 is set
DecodeInt32(regs) ==
    LET u == [hi |-> regs[1], lo |-> regs[2]]
    IN  IF u.hi >= Word \div 2 THEN [u EXCEPT !.hi = @ - Word] ELSE u

\* (high << 16) | low
DecodeUint32(regs) == [hi |-> regs[1], lo |-> regs[2]]

Encode(kind, w) ==
    IF kind = "int32" THEN Int32ToRegisters(w) ELSE Uint32ToRegisters(w)

Decode(kind, regs) ==
    IF kind = "int32" THEN DecodeInt32(regs) ELSE DecodeUint32(regs)

\* representable range of a field
InRange(kind, w) ==
    IF kind = "int32" THEN w.hi >= -(Word \div 2) /\ w.hi < Word \div 2
    ELSE w.hi >= 0 /\ w.hi < Word

\* the nearest representable bound of a field
ClampWide(kind, w) ==
    LET lowHi == IF kind = "int32" THEN -(Word \div 2) ELSE 0
        highHi == IF kind = "int32" THEN Word \div 2 - 1 ELSE Word - 1
    IN  IF w.hi < lowHi THEN [hi |-> lowHi, lo |-> 0]
        ELSE IF w.hi > highHi THEN [hi |-> highHi, lo |-> Word - 1]
        ELSE w

\* the values the codec is exercised on: the bounds of both ranges, their
\* neighbours on either side, and values in the middle
CodecHi == {-Word - 1, -(Word \div 2) - 1, -(Word \div 2), -1, 0, 1, 291,
            Word \div 2 - 1, Word \div 2, Word - 1, Word, Word + 7}
CodecLo == {0, 1, 5, 17767, Word - 1}
CodecKinds == {"int32", "uint32"}

----------------------------------------------------------------------------
(* BatterySimulator (battery_simulator.py) *)

BATTERY_CAPACITY_WH == 13500
BATTERY_MAX_POWER == 50000
MIN_SOC == 5
MAX_SOC == 100
CHARGE_EFFICIENCY == 9500
DISCHARGE_EFFICIENCY == 9500
MIN_VOLTAGE == 4200
MAX_VOLTAGE == 5760
OPTIMAL_TEMP_MIN == 150
OPTIMAL_TEMP_MAX == 250
AMBIENT_TEMP == 200

MinSoc == MIN_SOC * SocUnit
MaxSoc == MAX_SOC * SocUnit

ClampSocNone(s) == s

\* max(self.min_soc, min(self.max_soc, soc))
ClampSoc(s) == Max(MinSoc, Min(MaxSoc, s))

\* _calculate_voltage: linear in SOC, times a random variation vj (per mille)
CalculateVoltage(soc, vj) ==
    LET voltage == MIN_VOLTAGE
                    + ((soc \div (SocUnit \div 100)) * (MAX_VOLTAGE - MIN_VOLTAGE)) \div E4
    IN  MulDiv(voltage, vj, 1000)

\* _calculate_temperature: heating by power, cooling toward ambient, clamp
CalculateTemperature(b, power, dt) ==
    LET heat == MulDiv(Abs(power), 500, BATTERY_MAX_POWER)
        cooling == b.temperature - AMBIENT_TEMP
        new_temp == b.temperature + ((heat - cooling) * dt) \div 6000
    IN  Max(50, Min(450, new_temp))

\* _get_efficiency
GetEfficiency(b, is_charging) ==
    LET base == IF is_charging THEN CHARGE_EFFICIENCY ELSE DISCHARGE_EFFICIENCY
        temp_factor ==
            IF b.temperature < OPTIMAL_TEMP_MIN
            THEN E4 - (OPTIMAL_TEMP_MIN - b.temperature) * 5
            ELSE IF b.temperature > OPTIMAL_TEMP_MAX
            THEN E4 - (b.temperature - OPTIMAL_TEMP_MAX) * 3
            ELSE E4
        soc_factor ==
            IF is_charging /\ b.soc > 90 * SocUnit
            THEN E4 - (b.soc - 90 * SocUnit) \div (SocUnit \div 100)
            ELSE IF ~is_charging /\ b.soc < 20 * SocUnit
            THEN E4 - (20 * SocUnit - b.soc) \div (SocUnit \div 100)
            ELSE E4
    IN  ScaleE4(ScaleE4(base, temp_factor), soc_factor)

\* _get_power_limit: the taper without the SOC derating
GetPowerLimitFlat(b, is_charging) ==
    LET t == b.temperature
    IN  IF t > 400 THEN ScaleE4(BATTERY_MAX_POWER, 5000)
        ELSE IF t > 350 THEN ScaleE4(BATTERY_MAX_POWER, 8000)
        ELSE IF t < 50 THEN ScaleE4(BATTERY_MAX_POWER, 3000)
        ELSE IF t < 100 THEN ScaleE4(BATTERY_MAX_POWER, 7000)
        ELSE BATTERY_MAX_POWER

\* _get_power_limit: SOC derating (the elif branches at 95 % and 10 % can
\* never be taken), then temperature derating
GetPowerLimit(b, is_charging) ==
    LET soc_derated ==
            IF is_charging
            THEN IF b.soc > 90 * SocUnit
                 THEN ScaleE4(BATTERY_MAX_POWER, (100 * SocUnit - b.soc) \div (SocUnit \div 1000))
                 ELSE BATTERY_MAX_POWER
            ELSE IF b.soc < 15 * SocUnit
                 THEN ScaleE4(BATTERY_MAX_POWER, b.soc \div ((15 * SocUnit) \div E4))
                 ELSE BATTERY_MAX_POWER
        t == b.temperature
    IN  IF t > 400 THEN ScaleE4(soc_derated, 5000)
        ELSE IF t > 350 THEN ScaleE4(soc_derated, 8000)
        ELSE IF t < 50 THEN ScaleE4(soc_derated, 3000)
        ELSE IF t < 100 THEN ScaleE4(soc_derated, 7000)
        ELSE soc_derated

\* SOC points of an energy (dJ): energy_kwh / capacity_kwh * 100
SocOfEnergy(e) == MulDiv(e, 2500, 9 * BATTERY_CAPACITY_WH)

\* BatterySimulator.__init__
BatteryInit(initial_soc, vj) ==
    LET soc == ClampSoc(initial_soc)
    IN  [soc |-> soc, power |-> 0, voltage |-> CalculateVoltage(soc, vj),
         current |-> 0, temperature |-> AMBIENT_TEMP,
         total_charged |-> 0, total_discharged |-> 0,
         is_charging |-> FALSE, is_discharging |-> FALSE]

\* the power update() settles on: the request cut to the limit, 0 when the
\* battery is full (charging) or empty (discharging)
ActualPower(b, requested) ==
    IF requested < 0
    THEN IF b.soc >= MaxSoc THEN 0
         ELSE Max(-GetPowerLimit(b, TRUE), requested)
    ELSE IF b.soc <= MinSoc THEN 0
         ELSE Min(GetPowerLimit(b, FALSE), requested)

EnergyChangeLossless(b, requested, dt) == Abs(ActualPower(b, requested)) * dt

\* the energy (dJ) that update() moves into or out of the cells
EnergyChange(b, requested, dt) ==
    LET actual == ActualPower(b, requested)
        eff == GetEfficiency(b, requested < 0)
    IN  IF requested < 0 THEN ScaleE4(Abs(actual) * dt, eff)
        ELSE DivE4(actual * dt, eff)

\* BatterySimulator.update(requested_power_kw, dt_seconds)
BatteryUpdate(b, requested, dt, vj) ==
    LET is_charging == requested < 0
        actual == ActualPower(b, requested)
        energy == EnergyChange(b, requested, dt)
        raw_soc == IF is_charging THEN b.soc + SocOfEnergy(energy)
                   ELSE b.soc - SocOfEnergy(energy)
        soc == ClampSoc(raw_soc)
        voltage == CalculateVoltage(soc, vj)
        current == IF voltage > 0
                   THEN (IF actual >= 0 THEN MulDiv(actual, 1000, voltage)
                         ELSE -MulDiv(-actual, 1000, voltage))
                   ELSE 0
    IN  [soc |-> soc, power |-> actual, voltage |-> voltage, current |-> current,
         temperature |-> CalculateTemperature(b, actual, dt),
         total_charged |-> IF is_charging THEN b.total_charged + energy
                           ELSE b.total_charged,
         total_discharged |-> IF is_charging THEN b.total_discharged
                              ELSE b.total_discharged + actual * dt,
         is_charging |-> is_charging /\ actual # 0,
         is_discharging |-> ~is_charging /\ actual # 0]

\* BatterySimulator.set_soc
BatterySetSoc(b, soc, vj) ==
    LET s == ClampSoc(soc)
    IN  [b EXCEPT !.soc = s, !.voltage = CalculateVoltage(s, vj)]

----------------------------------------------------------------------------
(* EVChargerSimulator (ev_simulator.py) *)

AVAILABLE == 0
PREPARING == 1
CHARGING == 2
SUSPENDED_EV == 3
SUSPENDED_EVSE == 4
FINISHING == 5
RESERVED == 6
UNAVAILABLE == 7
FAULTED == 8

EV_MAX_POWER == 110000
VEHICLE_CAPACITY_WH == 60000
ARRIVAL_HOUR == 18
DEPARTURE_HOUR == 7
MIN_CURRENT == 6000
TARGET_SOC == 80
CHARGING_EFFICIENCY == 9200
\* DEFAULT_VOLTAGE * 1.732, in deci-volt
LINE_VOLTAGE_SQRT3 == 6928

\* an optional argument: <<>> is None, <<v>> is the value v
None == <<>>
Some(v) == <<v>>
IsNone(a) == Len(a) = 0
Val(a) == a[1]

\* self.max_current = (max_power_kw * 1000) / (DEFAULT_VOLTAGE * 1.732), in mA
MaxCurrent == MulDiv(EV_MAX_POWER, 1000, LINE_VOLTAGE_SQRT3)

\* the vehicle is inside the arrival/departure window at this hour
InWindow(hour) ==
    IF ARRIVAL_HOUR < DEPARTURE_HOUR
    THEN ARRIVAL_HOUR <= hour /\ hour < DEPARTURE_HOUR
    ELSE hour >= ARRIVAL_HOUR \/ hour < DEPARTURE_HOUR

\* update(): should_disconnect
ShouldDisconnect(hour) ==
    IF ARRIVAL_HOUR < DEPARTURE_HOUR
    THEN hour >= DEPARTURE_HOUR
    ELSE DEPARTURE_HOUR <= hour /\ hour < ARRIVAL_HOUR

\* __init__ with _schedule_vehicle: rsoc is the random arrival SOC
EvInit(now, hour, rsoc) ==
    LET connected == InWindow(hour)
    IN  [status |-> IF connected THEN CHARGING ELSE AVAILABLE,
         power |-> 0, session_energy |-> 0, total_energy |-> 0,
         vehicle_connected |-> connected,
         vehicle_soc |-> IF connected THEN rsoc ELSE 0,
         vehicle_target_soc |-> TARGET_SOC * SocUnit,
         session_start |-> IF connected THEN Some(now) ELSE None,
         last_update |-> now,
         current_limit |-> MaxCurrent]

ConnectVehiclePreparing(e, initial_soc, target_soc, now, rsoc) ==
    [e EXCEPT !.vehicle_connected = TRUE,
              !.vehicle_soc = IF IsNone(initial_soc) THEN rsoc
                              ELSE Min(100 * SocUnit, Max(0, Val(initial_soc))),
              !.vehicle_target_soc = IF IsNone(target_soc) THEN TARGET_SOC * SocUnit
                                     ELSE Val(target_soc),
              !.session_energy = 0,
              !.session_start = Some(now),
              !.status = PREPARING]

ConnectVehicleUnclamped(e, initial_soc, target_soc, now, rsoc) ==
    [e EXCEPT !.vehicle_connected = TRUE,
              !.vehicle_soc = IF IsNone(initial_soc) THEN rsoc ELSE Val(initial_soc),
              !.vehicle_target_soc = IF IsNone(target_soc) \/ Val(target_soc) = 0
                                     THEN TARGET_SOC * SocUnit ELSE Val(target_soc),
              !.session_energy = 0,
              !.session_start = Some(now),
              !.status = CHARGING]

\* connect_vehicle(initial_soc, target_soc): a missing initial SOC is drawn
\* at random (rsoc), a missing or zero target is TARGET_SOC
ConnectVehicle(e, initial_soc, target_soc, now, rsoc) ==
    LET initial == IF IsNone(initial_soc) THEN rsoc ELSE Val(initial_soc)
        target == IF IsNone(target_soc) \/ Val(target_soc) = 0
                  THEN TARGET_SOC * SocUnit ELSE Val(target_soc)
    IN  [e EXCEPT !.vehicle_connected = TRUE,
                  !.vehicle_soc = Min(100 * SocUnit, Max(0, initial)),
                  !.vehicle_target_soc = target,
                  !.session_energy = 0,
                  !.session_start = Some(now),
                  !.status = CHARGING]

DisconnectVehicleKeepsSession(e) ==
    [e EXCEPT !.vehicle_connected = FALSE, !.vehicle_soc = 0, !.power = 0,
              !.status = AVAILABLE]

\* disconnect_vehicle()
DisconnectVehicle(e) ==
    [e EXCEPT !.vehicle_connected = FALSE, !.vehicle_soc = 0, !.power = 0,
              !.status = AVAILABLE, !.session_start = None]

SetCurrentLimitUnclamped(e, current) == [e EXCEPT !.current_limit = current]

\* set_current_limit(current_a)
SetCurrentLimit(e, current) ==
    [e EXCEPT !.current_limit = Max(MIN_CURRENT, Min(MaxCurrent, current))]

PauseChargingAlways(e) == [e EXCEPT !.status = SUSPENDED_EVSE, !.power = 0]

\* pause_charging()
PauseCharging(e) ==
    IF e.status = CHARGING
    THEN [e EXCEPT !.status = SUSPENDED_EVSE, !.power = 0]
    ELSE e

ResumeChargingAnyStatus(e) ==
    IF e.status # AVAILABLE THEN [e EXCEPT !.status = CHARGING] ELSE e

\* resume_charging()
ResumeCharging(e) ==
    IF e.status \in {SUSPENDED_EVSE, SUSPENDED_EV}
       /\ e.vehicle_soc < e.vehicle_target_soc
    THEN [e EXCEPT !.status = CHARGING]
    ELSE e

CalculateChargingPowerAnyStatus(e, jitter) ==
    IF ~e.vehicle_connected \/ e.vehicle_soc >= e.vehicle_target_soc THEN 0
    ELSE MulDiv(Min(MulDiv(e.current_limit, LINE_VOLTAGE_SQRT3, 1000), EV_MAX_POWER),
                jitter, 1000)

\* _calculate_charging_power(): jitter is the random variation, per mille
\* (the elif branch above 90 % can never be taken)
CalculateChargingPower(e, jitter) ==
    IF ~e.vehicle_connected THEN 0
    ELSE IF e.status # CHARGING THEN 0
    ELSE IF e.vehicle_soc >= e.vehicle_target_soc THEN 0
    ELSE LET base == MulDiv(e.current_limit, LINE_VOLTAGE_SQRT3, 1000)
             taper_factor == (100 * SocUnit - e.vehicle_soc) \div ((20 * SocUnit) \div E4)
             tapered == IF e.vehicle_soc > 80 * SocUnit
                        THEN ScaleE4(base, Max(1000, taper_factor))
                        ELSE base
             capped == Min(tapered, EV_MAX_POWER)
         IN  MulDiv(capped, jitter, 1000)

\* SOC points of an energy (dJ) put into the vehicle battery
VehicleSocOfEnergy(e) == MulDiv(e, 2500, 9 * VEHICLE_CAPACITY_WH)

\* update(): the schedule handling at the head of update()
ScheduleStep(e, now, hour, rsoc) ==
    IF ~e.vehicle_connected
    THEN IF InWindow(hour) THEN ConnectVehicle(e, None, None, now, rsoc) ELSE e
    ELSE IF ShouldDisconnect(hour) THEN DisconnectVehicle(e) ELSE e

\* update(): the charging part that follows the schedule handling
ChargeStep(e, dt, jitter) ==
    LET power == CalculateChargingPower(e, jitter)
        energy == power * dt
        soc == Min(100 * SocUnit,
                   e.vehicle_soc + VehicleSocOfEnergy(ScaleE4(energy, CHARGING_EFFICIENCY)))
    IN  IF power > 0
        THEN [e EXCEPT !.vehicle_soc = soc,
                       !.session_energy = @ + energy,
                       !.total_energy = @ + energy,
                       !.status = IF soc >= e.vehicle_target_soc THEN FINISHING ELSE @,
                       !.power = IF soc >= e.vehicle_target_soc THEN 0 ELSE power]
        ELSE [e EXCEPT !.power = power]

\* EVChargerSimulator.update()
EvUpdate(e, now, hour, jitter, rsoc) ==
    LET dt == now - e.last_update
        scheduled == ScheduleStep([e EXCEPT !.last_update = now], now, hour, rsoc)
    IN  ChargeStep(scheduled, dt, jitter)

----------------------------------------------------------------------------
(* GridSimulator (grid_simulator.py) *)

NOMINAL_VOLTAGE == 2300
NOMINAL_FREQUENCY == 50000
MAX_GRID_POWER == 250000
VOLTAGE_MIN == 2070
VOLTAGE_MAX == 2530
FREQUENCY_MIN == 49500
FREQUENCY_MAX == 50500
POWER_FACTOR == 9500
\* sqrt(1 - power_factor^2) / power_factor, in 1e-4
TAN_PHI == 3287

ClampGridPowerNone(net_power) == net_power

\* max(-max_power_w, min(max_power_w, net_power_w))
ClampGridPower(net_power) == Max(-MAX_GRID_POWER, Min(MAX_GRID_POWER, net_power))

\* GridSimulator.__init__
GridInit(now) ==
    [power |-> 0, reactive_power |-> 0,
     voltage_l1 |-> NOMINAL_VOLTAGE, voltage_l2 |-> NOMINAL_VOLTAGE,
     voltage_l3 |-> NOMINAL_VOLTAGE,
     current_l1 |-> 0, current_l2 |-> 0, current_l3 |-> 0,
     frequency |-> NOMINAL_FREQUENCY,
     import_energy |-> 0, export_energy |-> 0, last_update |-> now]

\* _simulate_voltage: time-of-day offset, a random draw, clamp (deci-volt)
SimulateVoltage(hour, draw, phase_offset) ==
    LET base_offset == IF 17 <= hour /\ hour <= 21 THEN -30
                       ELSE IF 2 <= hour /\ hour <= 6 THEN 20 ELSE 0
    IN  Max(VOLTAGE_MIN, Min(VOLTAGE_MAX, NOMINAL_VOLTAGE + base_offset + draw + phase_offset))

\* _simulate_frequency: nominal plus a random draw, clamp (milli-hertz)
SimulateFrequency(draw) ==
    Max(FREQUENCY_MIN, Min(FREQUENCY_MAX, NOMINAL_FREQUENCY + draw))

\* _calculate_currents: current per phase (centi-ampere) before imbalance
CurrentPerPhase(g, power) ==
    LET avg_voltage == (g.voltage_l1 + g.voltage_l2 + g.voltage_l3) \div 3
    IN  IF avg_voltage > 0
        THEN MulDiv(Abs(power), 2000, (POWER_FACTOR \div 500) * 3 * avg_voltage)
        ELSE 0

\* _calculate_reactive_power
CalculateReactivePower(power) ==
    IF POWER_FACTOR >= E4 THEN 0
    ELSE IF power > 0 THEN ScaleE4(Abs(power), TAN_PHI)
    ELSE -ScaleE4(Abs(power), TAN_PHI)

\* GridSimulator.update(net_power_w): noise holds the random draws
GridUpdate(g, net_power, now, hour, noise) ==
    LET power == ClampGridPower(net_power)
        dt == now - g.last_update
        energy == Abs(power) * dt
        volts == [g EXCEPT !.voltage_l1 = SimulateVoltage(hour, noise.v, 0),
                           !.voltage_l2 = SimulateVoltage(hour, noise.v, -5),
                           !.voltage_l3 = SimulateVoltage(hour, noise.v, 3)]
        per_phase == CurrentPerPhase(volts, power)
    IN  [volts EXCEPT
            !.power = power,
            !.last_update = now,
            !.import_energy = IF power > 0 THEN @ + energy ELSE @,
            !.export_energy = IF power > 0 THEN @ ELSE @ + energy,
            !.frequency = SimulateFrequency(noise.f),
            !.current_l1 = MulDiv(per_phase, noise.i, 1000),
            !.current_l2 = MulDiv(per_phase, noise.i - 10, 1000),
            !.current_l3 = MulDiv(per_phase, noise.i + 10, 1000),
            !.reactive_power = CalculateReactivePower(power)]

GridModeNoDeadband(g) ==
    IF g.power > 0 THEN "importing"
    ELSE IF g.power < 0 THEN "exporting"
    ELSE "balanced"

\* get_status(): mode with the 50 W deadband
GridMode(g) ==
    IF g.power > 500 THEN "importing"
    ELSE IF g.power < -500 THEN "exporting"
    ELSE "balanced"

----------------------------------------------------------------------------
(* SolarSimulator (solar_simulator.py).  Power in dW, angles in milli-      *)
(* degrees, cloud cover and factors in 1e-4.  The trigonometry is           *)
(* tabulated: RawElevation is the value of the asin expression of           *)
(* calculate_solar_elevation at the latitude of main.py (52.3676) for the   *)
(* timestamps of the table, SinE4 the sine of the elevations it yields.     *)

SOLAR_PEAK_POWER == 60000
SOLAR_EFFICIENCY == 8500

\* timestamps: day of year, hour, minute
Timestamps ==
    {[day |-> 172, hour |-> 12, minute |-> 0],
     [day |-> 172, hour |-> 0, minute |-> 0],
     [day |-> 172, hour |-> 3, minute |-> 45],
     [day |-> 172, hour |-> 7, minute |-> 0],
     [day |-> 172, hour |-> 18, minute |-> 0],
     [day |-> 355, hour |-> 8, minute |-> 15],
     [day |-> 355, hour |-> 12, minute |-> 0],
     [day |-> 80, hour |-> 6, minute |-> 0]}

\* degrees(asin(sin(lat) sin(dec) + cos(lat) cos(dec) cos(hour angle)))
RawElevation(ts) ==
    CASE ts = [day |-> 172, hour |-> 12, minute |-> 0] -> 61082
      [] ts = [day |-> 172, hour |-> 0, minute |-> 0] -> -14183
      [] ts = [day |-> 172, hour |-> 3, minute |-> 45] -> 226
      [] ts = [day |-> 172, hour |-> 7, minute |-> 0] -> 27396
      [] ts = [day |-> 172, hour |-> 18, minute |-> 0] -> 18370
      [] ts = [day |-> 355, hour |-> 8, minute |-> 15] -> -226
      [] ts = [day |-> 355, hour |-> 12, minute |-> 0] -> 14183
      [] ts = [day |-> 80, hour |-> 6, minute |-> 0] -> -320

\* math.sin(math.radians(elevation)) in 1e-4
SinE4(elevation) ==
    CASE elevation = 61082 -> 8753
      [] elevation = 27396 -> 4601
      [] elevation = 18370 -> 3152
      [] elevation = 14183 -> 2450
      [] elevation = 226 -> 39
      [] OTHER -> 0

\* calculate_solar_elevation: max(0, elevation)
CalculateSolarElevation(ts) == Max(0, RawElevation(ts))

\* get_cloud_cover: 0.3 plus a draw from uniform(-0.2, 0.3), within [0, 1]
GetCloudCover(draw) == Max(0, Min(E4, 3000 + draw))

\* get_ambient_temperature (deci-degree); draw is uniform(-2, 2) at night
GetAmbientTemperature(ts, draw) ==
    IF 6 <= ts.hour /\ ts.hour < 12 THEN 100 + (ts.hour - 6) * 20
    ELSE IF 12 <= ts.hour /\ ts.hour < 18 THEN 220 - (ts.hour - 12) * 15
    ELSE 80 + draw

FloorAtZeroNone(x) == x

\* max(0, power_kw * variation)
FloorAtZero(x) == Max(0, x)

\* calculate_power_output(timestamp, cloud_cover): power in dW, a whole
\* number of watts (round(..., 3) of kilowatts)
CalculatePowerOutput(ts, cloud_cover, cloud_draw, temp_draw, variation) ==
    LET elevation == CalculateSolarElevation(ts)
        cloud == IF IsNone(cloud_cover) THEN GetCloudCover(cloud_draw)
                 ELSE Val(cloud_cover)
        cloud_factor == E4 - ScaleE4(cloud, 8000)
        temp == GetAmbientTemperature(ts, temp_draw)
        temp_factor == E4 - Max(0, temp - 250) * 4
        clear == ScaleE4(ScaleE4(SOLAR_PEAK_POWER, SinE4(elevation)),
                         SOLAR_EFFICIENCY)
        power == ScaleE4(ScaleE4(clear, cloud_factor), temp_factor)
    IN  IF elevation <= 0 THEN 0
        ELSE RoundDeci(FloorAtZero(MulDiv(power, variation, 1000))) * 10

----------------------------------------------------------------------------
(* ModbusSimulatorServer (main.py): register banks and the tick loop *)

BASE_LOAD == 8000

Units == 1 .. 4
BankSize(u) == IF u = 1 THEN 7 ELSE IF u = 2 THEN 13 ELSE IF u = 3 THEN 15 ELSE 9

\* _create_stores: every cell 0 (the cells past the documented fields of
\* a unit are never written and are left out)
CreateStores == [u \in Units |-> [i \in 0 .. BankSize(u) - 1 |-> 0]]

PutPairLowFirst(hr, reg, regs) ==
    [hr EXCEPT ![reg] = regs[2], ![reg + 1] = regs[1]]

\* hr[reg], hr[reg + 1] = high, low
PutPair(hr, reg, regs) == [hr EXCEPT ![reg] = regs[1], ![reg + 1] = regs[2]]

\* round(x, 1) of a quantity held in units of 1/q, as tenths
RoundTenths(x, q) ==
    IF x >= 0 THEN (x + q \div 20) \div (q \div 10)
    ELSE -((-x + q \div 20) \div (q \div 10))

\* Python int() of a quantity held in units of 1/q
IntOf(x, q) == IF x >= 0 THEN x \div q ELSE -((-x) \div q)

\* int(round(wh, 1)) of an energy held in dJ: get_status() rounds to 0.1 Wh
WholeWh(energy) == IntOf(RoundTenths(energy, 36000), 10)

\* update_solar_registers: the cells computed from power (W) and energy (J)
SolarRegisters(hr, power_w, energy) ==
    LET voltage == (380 + IntOf(power_w, 50)) * 10
        h1 == PutPair(hr, 0, Int32ToRegisters(Wide(power_w)))
        h2 == PutPair(h1, 2, Uint32ToRegisters(Wide(IntOf(energy, 3600))))
    IN  [h2 EXCEPT ![4] = voltage,
                   ![5] = IF voltage > 0 THEN IntOf(power_w * 100, voltage) ELSE 0,
                   ![6] = IF power_w > 0 THEN 1 ELSE 0]

\* update_ev_registers: the cells computed from get_status()
EvRegisters(hr, e) ==
    LET h1 == PutPair(hr, 0, Int32ToRegisters(Wide(IntOf(e.power, 10))))
        h2 == PutPair(h1, 2, Uint32ToRegisters(Wide(WholeWh(e.session_energy))))
        h3 == PutPair(h2, 6, Int32ToRegisters(Wide(IntOf(EV_MAX_POWER, 10))))
    IN  [h3 EXCEPT ![4] = IntOf(RoundTenths(e.vehicle_soc, SocUnit), 10),
                   ![5] = e.status,
                   ![8] = RoundTenths(e.current_limit, 1000)]

\* status['power_kw'] * 1000 as an int: the battery power in whole watts
BatteryPowerW(b) == RoundDeci(b.power)

\* update_battery_registers: the cells computed from the status
BatteryRegisters(hr, b) ==
    LET power_w == BatteryPowerW(b)
        h1 == PutPair(hr, 1, Int32ToRegisters(Wide(power_w)))
        h2 == PutPair(h1, 7, Uint32ToRegisters(Wide(BATTERY_CAPACITY_WH)))
        h3 == PutPair(h2, 9, Int32ToRegisters(Wide(IntOf(GetPowerLimit(b, TRUE), 10))))
        h4 == PutPair(h3, 11, Int32ToRegisters(Wide(IntOf(GetPowerLimit(b, FALSE), 10))))
    IN  [h4 EXCEPT ![0] = IntOf(RoundTenths(b.soc, SocUnit), 10),
                   ![3] = IntOf(b.voltage, 10),
                   ![4] = IntOf(b.current, 10),
                   ![5] = b.temperature,
                   ![6] = IF Abs(power_w) < 50 THEN 0
                          ELSE IF power_w < 0 THEN 1 ELSE 2]

\* update_grid_registers: the cells computed from the status
GridRegisters(hr, g) ==
    LET h1 == PutPair(hr, 0, Int32ToRegisters(Wide(IntOf(g.power, 10))))
        h2 == PutPair(h1, 2, Int32ToRegisters(Wide(IntOf(g.reactive_power, 10))))
        h3 == PutPair(h2, 11, Uint32ToRegisters(Wide(WholeWh(g.import_energy))))
        h4 == PutPair(h3, 13, Uint32ToRegisters(Wide(WholeWh(g.export_energy))))
    IN  [h4 EXCEPT ![4] = g.voltage_l1, ![5] = g.voltage_l2, ![6] = g.voltage_l3,
                   ![7] = g.current_l1, ![8] = g.current_l2, ![9] = g.current_l3,
                   ![10] = IntOf(g.frequency, 10)]

SetValuesTorn(bank, hr) ==
    [i \in DOMAIN bank |-> IF i % 2 = 0 THEN hr[i] ELSE bank[i]]

\* store.setValues(3, 0, hr): the whole list replaces the bank at once
SetValues(bank, hr) == hr

\* store.getValues(3, 0, 100): a copy of the bank
GetValues(bank) == bank

BankAfterRaiseInPlace(bank, hr) == hr

\* an update_*_registers that raises does so before its setValues call:
\* the cells it has computed are in the copy hr, which is dropped
BankAfterRaise(bank, hr) == bank

\* the unit of a device
UnitOf(device) ==
    CASE device = "solar" -> 1 [] device = "battery" -> 2
      [] device = "grid" -> 3 [] device = "ev" -> 4

----------------------------------------------------------------------------
(* Specification of the codec: a value is drawn, encoded, decoded. *)

\* a component that takes no part in a specification
Unused == [unused |-> TRUE]

InitCodec ==
    /\ codec \in [kind : CodecKinds, value : [hi : CodecHi, lo : CodecLo],
                  regs : {<<0, 0>>}, hr : {[i \in 0 .. 1 |-> 0]},
                  decoded : {Wide(0)}, pc : {"new"}]
    /\ battery = Unused /\ ev = Unused /\ grid = Unused /\ clock = Unused
    /\ srv = Unused /\ stores = Unused
    /\ op = [name |-> "init"]

\* hr[REG], hr[REG + 1] = self._int32_to_registers(value) (or _uint32_)
CodecEncode ==
    /\ codec.pc = "new"
    /\ codec' = [codec EXCEPT !.regs = Encode(codec.kind, codec.value),
                              !.hr = PutPair(@, 0, Encode(codec.kind, codec.value)),
                              !.pc = "encoded"]
    /\ op' = [name |-> "encode"]
    /\ UNCHANGED <<battery, ev, grid, clock, srv, stores>>

\* a client reads the two cells and combines them
CodecDecode ==
    /\ codec.pc = "encoded"
    /\ codec' = [codec EXCEPT !.decoded = Decode(codec.kind,
                                                 <<codec.hr[0], codec.hr[1]>>),
                              !.pc = "decoded"]
    /\ op' = [name |-> "decode"]
    /\ UNCHANGED <<battery, ev, grid, clock, srv, stores>>

NextCodec == CodecEncode \/ CodecDecode

SpecCodec == InitCodec /\ [][NextCodec]_vars

----------------------------------------------------------------------------
(* Specification of the battery alone: any initial SOC, then update() and  *)
(* set_soc() calls with any power and time step.                            *)

MaxBatteryOps == 3

InitialSocs == {0, 50 * SocUnit, 97 * SocUnit, 120 * SocUnit}
RequestedPowers == {-60000, -30000, 0, 20000, 60000}
TimeSteps == {0, 1, 1800}
VoltageVariation == {995, 1005}
SetSocValues == {-SocUnit, 5 * SocUnit + 300, 99 * SocUnit, 101 * SocUnit}

InitBattery ==
    /\ \E s \in InitialSocs, vj \in VoltageVariation :
          /\ battery = BatteryInit(s, vj)
          /\ op = [name |-> "init", n |-> 0, requested |-> 0, dt |-> 0,
                   before |-> BatteryInit(s, vj)]
    /\ codec = Unused /\ ev = Unused /\ grid = Unused /\ clock = Unused
    /\ srv = Unused /\ stores = Unused

BatteryUpdateCall ==
    /\ op.n < MaxBatteryOps
    /\ \E r \in RequestedPowers, dt \in TimeSteps, vj \in VoltageVariation :
          /\ battery' = BatteryUpdate(battery, r, dt, vj)
          /\ op' = [name |-> "update", n |-> op.n + 1, requested |-> r,
                    dt |-> dt, before |-> battery]
    /\ UNCHANGED <<codec, ev, grid, clock, srv, stores>>

BatterySetSocCall ==
    /\ op.n < MaxBatteryOps
    /\ \E s \in SetSocValues, vj \in VoltageVariation :
          /\ battery' = BatterySetSoc(battery, s, vj)
          /\ op' = [name |-> "set_soc", n |-> op.n + 1, requested |-> s,
                    dt |-> 0, before |-> battery]
    /\ UNCHANGED <<codec, ev, grid, clock, srv, stores>>

NextBattery == BatteryUpdateCall \/ BatterySetSocCall

SpecBattery == InitBattery /\ [][NextBattery]_vars

----------------------------------------------------------------------------
(* Specification of a charge run, the example of battery_simulator.py: a   *)
(* battery created at 50 % SOC, then update(requested, 1 s) again and again *)
(* with the same charge request.                                            *)

RunLength == 10

ChargeRequests == {-10000, -20000, -30000, -40000, -50000}

InitChargeRun ==
    /\ \E r \in ChargeRequests, vj \in VoltageVariation :
          /\ battery = BatteryInit(50 * SocUnit, vj)
          /\ op = [name |-> "init", n |-> 0, requested |-> r, dt |-> 0,
                   before |-> BatteryInit(50 * SocUnit, vj)]
    /\ codec = Unused /\ ev = Unused /\ grid = Unused /\ clock = Unused
    /\ srv = Unused /\ stores = Unused

ChargeRunUpdate ==
    /\ op.n < RunLength
    /\ \E vj \in VoltageVariation :
          /\ battery' = BatteryUpdate(battery, op.requested, 1, vj)
          /\ op' = [op EXCEPT !.name = "update", !.n = @ + 1, !.dt = 1,
                              !.before = battery]
    /\ UNCHANGED <<codec, ev, grid, clock, srv, stores>>

NextChargeRun == ChargeRunUpdate

SpecChargeRun == InitChargeRun /\ [][NextChargeRun]_vars

----------------------------------------------------------------------------
(* Specification of the EV charger alone: the API calls in any order, and  *)
(* update() after any elapsed time at any hour of the day.                  *)

MaxEvOps == 4

\* op.limit_set is the argument of set_current_limit after that call, and
\* after the update() that follows it at once; None otherwise

\* the hours the wall clock is observed at: the last hour inside the
\* overnight window, the departure hour and the arrival hour; while time
\* passes the hour stays, or moves on to the next of these
HourAfter(h) == IF h = 6 THEN DEPARTURE_HOUR
                ELSE IF h = DEPARTURE_HOUR THEN ARRIVAL_HOUR ELSE 6
ClockHours == {6, DEPARTURE_HOUR, ARRIVAL_HOUR}
ElapsedSeconds == {0, 1, 600}
PowerVariation == {980, 1020}
ArrivalSocs == {20 * SocUnit + 6 * (SocUnit \div 10), 50 * SocUnit}
ConnectSocs == {None, Some(79 * SocUnit), Some(90 * SocUnit), Some(100 * SocUnit),
                Some(120 * SocUnit), Some(-5 * SocUnit)}
\* connect_vehicle takes any target_soc: absent, 85 %, and 150 %
ConnectTargets == {None, Some(85 * SocUnit), Some(150 * SocUnit)}
CurrentLimits == {4000, 10000, 20000}

\* time passes: d seconds, and the hour stays or moves on
Advance(c, d, h) == [t |-> c.t + d, hour |-> h]

InitEV ==
    /\ \E h \in ClockHours, rsoc \in ArrivalSocs :
          /\ clock = [t |-> 0, hour |-> h]
          /\ ev = EvInit(0, h, rsoc)
          /\ op = [name |-> "init", n |-> 0, explicit |-> "none",
                   limit_set |-> None, before |-> EvInit(0, h, rsoc)]
    /\ codec = Unused /\ battery = Unused /\ grid = Unused
    /\ srv = Unused /\ stores = Unused

EvConnectCall ==
    /\ op.n < MaxEvOps
    /\ \E i \in ConnectSocs, tg \in ConnectTargets, rsoc \in ArrivalSocs :
          ev' = ConnectVehicle(ev, i, tg, clock.t, rsoc)
    /\ op' = [name |-> "connect", n |-> op.n + 1, explicit |-> "connect",
              limit_set |-> None, before |-> ev]
    /\ UNCHANGED <<codec, battery, grid, clock, srv, stores>>

EvDisconnectCall ==
    /\ op.n < MaxEvOps
    /\ ev' = DisconnectVehicle(ev)
    /\ op' = [name |-> "disconnect", n |-> op.n + 1, explicit |-> "disconnect",
              limit_set |-> None, before |-> ev]
    /\ UNCHANGED <<codec, battery, grid, clock, srv, stores>>

EvPauseCall ==
    /\ op.n < MaxEvOps
    /\ ev' = PauseCharging(ev)
    /\ op' = [op EXCEPT !.name = "pause", !.n = @ + 1, !.limit_set = None,
                        !.before = ev]
    /\ UNCHANGED <<codec, battery, grid, clock, srv, stores>>

EvResumeCall ==
    /\ op.n < MaxEvOps
    /\ ev' = ResumeCharging(ev)
    /\ op' = [op EXCEPT !.name = "resume", !.n = @ + 1, !.limit_set = None,
                        !.before = ev]
    /\ UNCHANGED <<codec, battery, grid, clock, srv, stores>>

EvSetCurrentLimitCall ==
    /\ op.n < MaxEvOps
    /\ \E c \in CurrentLimits :
          /\ ev' = SetCurrentLimit(ev, c)
          /\ op' = [op EXCEPT !.name = "set_current_limit", !.n = @ + 1,
                              !.limit_set = Some(c), !.before = ev]
    /\ UNCHANGED <<codec, battery, grid, clock, srv, stores>>

\* update() called after d more seconds of wall-clock time
EvUpdateCall ==
    /\ op.n < MaxEvOps
    /\ \E d \in ElapsedSeconds, h \in {clock.hour, HourAfter(clock.hour)},
          j \in PowerVariation, rsoc \in ArrivalSocs :
          /\ (h # clock.hour) => d > 0
          /\ clock' = Advance(clock, d, h)
          /\ ev' = EvUpdate(ev, clock.t + d, h, j, rsoc)
    /\ op' = [op EXCEPT !.name = "update", !.n = @ + 1,
                        !.limit_set = IF op.name = "set_current_limit" THEN @ ELSE None,
                        !.before = ev]
    /\ UNCHANGED <<codec, battery, grid, srv, stores>>

NextEV ==
    \/ EvConnectCall \/ EvDisconnectCall \/ EvPauseCall \/ EvResumeCall
    \/ EvSetCurrentLimitCall \/ EvUpdateCall

SpecEV == InitEV /\ [][NextEV]_vars

----------------------------------------------------------------------------
(* Specification of the grid meter: update is called with a net power and   *)
(* the clock advances between the calls.                                    *)

MaxGridOps == 2
\* the random draws of GridSimulator.update: voltage (dV), frequency (mHz),
\* current imbalance (1e-3)
GridNoise == {[v |-> -20, f |-> -20, i |-> 990], [v |-> 20, f |-> 20, i |-> 1010]}
\* net_power_w (dW): beyond the connection limit on both sides, and on
\* both sides of the 50 W deadband of the mode
GridPowers == {-300000, -501, -500, 0, 500, 501, 300000}
GridHours == {3, 12, 18}
GridSeconds == {0, 1, 600}

InitGrid ==
    /\ \E h \in GridHours : clock = [t |-> 0, hour |-> h]
    /\ grid = GridInit(0)
    /\ op = [name |-> "init", n |-> 0, net_power |-> 0,
             before |-> GridInit(0),
             mode |-> GridMode(GridInit(0))]
    /\ codec = Unused /\ battery = Unused /\ ev = Unused
    /\ srv = Unused /\ stores = Unused

GridUpdateCall ==
    /\ op.n < MaxGridOps
    /\ \E net_power \in GridPowers, d \in GridSeconds, noise \in GridNoise :
          /\ clock' = [clock EXCEPT !.t = @ + d]
          /\ grid' = GridUpdate(grid, net_power, clock.t + d, clock.hour, noise)
          /\ op' = [name |-> "update", n |-> op.n + 1,
                    net_power |-> net_power, before |-> grid,
                       mode |-> GridMode(grid')]
    /\ UNCHANGED <<codec, battery, ev, srv, stores>>

NextGrid == GridUpdateCall

SpecGrid == InitGrid /\ [][NextGrid]_vars

----------------------------------------------------------------------------
(* Specification of the solar model: calculate_power_output is called for   *)
(* a timestamp, with a cloud cover or without one.                          *)

\* cloud_cover argument: absent, clear, half covered, overcast, and values
\* outside [0, 1]
CloudCovers == {None, Some(0), Some(5000), Some(E4), Some(2 * E4), Some(-5000)}
CloudDraws == {-2000, 3000}
NightTempDraws == {-20, 20}
SolarVariation == {970, 1030}

InitSolar ==
    /\ \E ts \in Timestamps : clock = ts
    /\ op = [name |-> "init"]
    /\ codec = Unused /\ battery = Unused /\ ev = Unused /\ grid = Unused
    /\ srv = Unused /\ stores = Unused

CalculatePowerOutputCall ==
    /\ \E ts \in Timestamps, cloud_cover \in CloudCovers, cd \in CloudDraws,
          td \in NightTempDraws, variation \in SolarVariation :
          /\ clock' = ts
          /\ op' = [name |-> "calculate_power_output", cloud_cover |-> cloud_cover,
                    variation |-> variation,
                    power |-> CalculatePowerOutput(ts, cloud_cover, cd, td, variation),
                    \* the call before this one
                    prev |-> IF op.name = "init" THEN [name |-> "init"]
                             ELSE [name |-> op.name, timestamp |-> clock,
                                   cloud_cover |-> op.cloud_cover,
                                   power |-> op.power]]
    /\ UNCHANGED <<codec, battery, ev, grid, srv, stores>>

NextSolar == CalculatePowerOutputCall

SpecSolar == InitSolar /\ [][NextSolar]_vars

----------------------------------------------------------------------------
(* Specification of the server: update_loop ticks once a second; a tick is  *)
(* the steps solar, EV, battery, grid, publish, all run without suspension, *)
(* then asyncio.sleep.  Modbus reads and calls of the EV charger API are    *)
(* served by the same event loop, that is while the tick task sleeps.  The  *)
(* MQTT callbacks run in the client's network thread at any time; the flag  *)
(* they set is read by publish_telemetry only, so they are taken at the     *)
(* point where it is read.                                                  *)

MaxTicks == 2
MaxApiCalls == 1
\* solar.get_current_status()['power_w'] in W: no sun, and a 40 kWp array
\* (SOLAR_PEAK_POWER_KW) in full sun
SolarPowers == {0, 32000}
Devices == {"solar", "ev", "battery", "grid"}
\* the hour of day when the server starts: before the departure hour,
\* before the arrival hour
StartHours == {DEPARTURE_HOUR - 1, ARRIVAL_HOUR - 1}

\* the energy counters of the four devices
Counters ==
    [import |-> grid.import_energy, export |-> grid.export_energy,
     charged |-> battery.total_charged, discharged |-> battery.total_discharged,
     solar |-> srv.solar_energy, session |-> ev.session_energy]

Did(name) == [name |-> name, prev |-> Counters]

\* net_power = load_power_w - solar_power_w, the power asked of the battery
BatteryRequest(total_load, solar_power_w) == total_load - solar_power_w * 10

NetGridPowerOfRequest(total_load, solar_power_w, battery_power_w) ==
    total_load - solar_power_w * 10 - BatteryRequest(total_load, solar_power_w)

NetGridPowerNoBattery(total_load, solar_power_w, battery_power_w) ==
    total_load - solar_power_w * 10

\* net_grid_w = total_load_w - solar_data['power_w'] - battery_data['power_w']
NetGridPower(total_load, solar_power_w, battery_power_w) ==
    total_load - solar_power_w * 10 - battery_power_w * 10

CalculateConsumptionNoEv(solar, battery_w, grid_w, ev_w) ==
    Max(0, TruncDeci(solar + battery_w + grid_w))

\* _calculate_consumption(telemetry): max(0, int(solar + battery + grid - ev)),
\* the four powers in deci-watt, the result in whole watts
CalculateConsumption(solar, battery_w, grid_w, ev_w) ==
    Max(0, TruncDeci(solar + battery_w + grid_w - ev_w))

\* home_consumption_w of the system status built from the telemetry of the
\* tick
HomeConsumption ==
    CalculateConsumption(srv.solar_power * 10, srv.battery_power * 10,
                         srv.grid_power, srv.ev_power)

RaisedThenPublish(device) ==
    [srv EXCEPT !.pc = "publish", !.errors = @ + 1, !.failed = device]

\* except Exception as e: logger.error(...); the rest of the tick is skipped
Raised(device) ==
    [srv EXCEPT !.pc = "sleep", !.errors = @ + 1, !.failed = device]

\* ModbusSimulatorServer.__init__, then run() creates the tick task
InitTick ==
    /\ \E h \in StartHours, turn \in 0 .. MaxTicks - 1,
          rsoc \in ArrivalSocs, vj \in VoltageVariation :
          \* turn: the second at which the hour of day changes (0: not
          \* while the model runs)
          /\ clock = [t |-> 0, hour |-> h, turn |-> turn]
          /\ ev = EvInit(0, h, rsoc)
          /\ battery = BatteryInit(50 * SocUnit, vj)
    /\ grid = GridInit(0)
    /\ stores = CreateStores
    /\ srv = [pc |-> "solar", tick |-> 1, completed |-> 0,
              solar_energy |-> 0, last_update |-> 0,
              mqtt_connected |-> FALSE, published |-> 0,
              solar_power |-> 0, ev_power |-> 0, total_load |-> 0,
              battery_request |-> 0, battery_power |-> 0, net_grid |-> 0,
              grid_request |-> 0, grid_power |-> 0,
              errors |-> 0, failed |-> "none", ran |-> {}, api |-> 0,
              listener |-> "serving",
              written |-> CreateStores,
              wtick |-> [u \in Units |-> 0]]
    /\ codec = Unused
    /\ op = [name |-> "init", prev |-> Counters]

\* solar_data = self.update_solar_registers()
TickSolar ==
    /\ srv.pc = "solar"
    /\ \E power_w \in SolarPowers, raise \in BOOLEAN :
          LET energy == srv.solar_energy + power_w * (clock.t - srv.last_update)
              hr == SolarRegisters(GetValues(stores[1]), power_w, energy)
          IN  IF raise
              THEN /\ srv' = Raised("solar")
                   /\ stores' = [stores EXCEPT ![1] = BankAfterRaise(@, hr)]
              ELSE /\ srv' = [srv EXCEPT !.pc = "ev", !.solar_energy = energy,
                                         !.solar_power = power_w,
                                         !.ran = @ \cup {"solar"},
                                         !.written[1] = hr,
                                         !.wtick[1] = srv.tick]
                   /\ stores' = [stores EXCEPT ![1] = SetValues(@, hr)]
    /\ op' = Did("solar")
    /\ UNCHANGED <<codec, battery, ev, grid, clock>>

\* ev_data = self.update_ev_registers(); total_load_w = base_load_w + power
TickEv ==
    /\ srv.pc = "ev"
    /\ \E jitter \in PowerVariation, rsoc \in ArrivalSocs, raise \in BOOLEAN :
          LET e == EvUpdate(ev, clock.t, clock.hour, jitter, rsoc)
              hr == EvRegisters(GetValues(stores[4]), e)
          IN  IF raise
              THEN /\ srv' = Raised("ev")
                   /\ stores' = [stores EXCEPT ![4] = BankAfterRaise(@, hr)]
                   /\ UNCHANGED ev
              ELSE /\ ev' = e
                   /\ srv' = [srv EXCEPT !.pc = "battery", !.ev_power = e.power,
                                         !.total_load = BASE_LOAD + e.power,
                                         !.ran = @ \cup {"ev"},
                                         !.written[4] = hr,
                                         !.wtick[4] = srv.tick]
                   /\ stores' = [stores EXCEPT ![4] = SetValues(@, hr)]
    /\ op' = Did("ev")
    /\ UNCHANGED <<codec, battery, grid, clock>>

\* battery_data = self.update_battery_registers(solar power, total load)
TickBattery ==
    /\ srv.pc = "battery"
    /\ \E vj \in VoltageVariation, raise \in BOOLEAN :
          LET net_power == BatteryRequest(srv.total_load, srv.solar_power)
              b == BatteryUpdate(battery, net_power, 1, vj)
              hr == BatteryRegisters(GetValues(stores[2]), b)
          IN  IF raise
              THEN /\ srv' = Raised("battery")
                   /\ stores' = [stores EXCEPT ![2] = BankAfterRaise(@, hr)]
                   /\ UNCHANGED battery
              ELSE /\ battery' = b
                   /\ srv' = [srv EXCEPT !.pc = "grid",
                                         !.battery_request = net_power,
                                         !.battery_power = BatteryPowerW(b),
                                         !.ran = @ \cup {"battery"},
                                         !.written[2] = hr,
                                         !.wtick[2] = srv.tick]
                   /\ stores' = [stores EXCEPT ![2] = SetValues(@, hr)]
    /\ op' = Did("battery")
    /\ UNCHANGED <<codec, ev, grid, clock>>

\* grid_data = self.update_grid_registers(int(net_grid_w))
TickGrid ==
    /\ srv.pc = "grid"
    /\ \E noise \in GridNoise, raise \in BOOLEAN :
          LET net_grid == NetGridPower(srv.total_load, srv.solar_power,
                                       srv.battery_power)
              g == GridUpdate(grid, TruncDeci(net_grid) * 10, clock.t,
                              clock.hour, noise)
              hr == GridRegisters(GetValues(stores[3]), g)
          IN  IF raise
              THEN /\ srv' = Raised("grid")
                   /\ stores' = [stores EXCEPT ![3] = BankAfterRaise(@, hr)]
                   /\ UNCHANGED grid
              ELSE /\ grid' = g
                   /\ srv' = [srv EXCEPT !.pc = "publish", !.net_grid = net_grid,
                                         !.grid_request = TruncDeci(net_grid) * 10,
                                         !.grid_power = g.power,
                                         !.ran = @ \cup {"grid"},
                                         !.written[3] = hr,
                                         !.wtick[3] = srv.tick]
                   /\ stores' = [stores EXCEPT ![3] = SetValues(@, hr)]
    /\ op' = Did("grid")
    /\ UNCHANGED <<codec, battery, ev, clock>>

AfterPublishFatal(raise) == IF raise THEN "stopped" ELSE "sleep"

\* publish_telemetry catches what publish() raises (except Exception: log)
\* and returns; the tick goes on to the sleep
AfterPublish(raise) == "sleep"

\* self.publish_telemetry(telemetry); self.last_update = time.time()
TickPublish ==
    /\ srv.pc = "publish"
    /\ \E raise \in BOOLEAN :
          srv' = [srv EXCEPT
                     !.pc = AfterPublish(srv.mqtt_connected /\ raise),
                     !.completed = srv.tick,
                     !.last_update = clock.t,
                     !.published = IF srv.mqtt_connected /\ ~raise
                                   THEN srv.tick ELSE @]
    /\ op' = Did("publish")
    /\ UNCHANGED <<codec, battery, ev, grid, clock, stores>>

\* await asyncio.sleep(1.0) returns: the next tick starts
TickWake ==
    /\ srv.pc = "sleep"
    /\ srv.tick < MaxTicks
    /\ clock' = [clock EXCEPT !.t = @ + 1,
                              !.hour = IF clock.t + 1 = clock.turn
                                       THEN (@ + 1) % 24 ELSE @]
    /\ srv' = [srv EXCEPT !.pc = "solar", !.tick = @ + 1, !.failed = "none",
                          !.ran = {}]
    /\ op' = Did("wake")
    /\ UNCHANGED <<codec, battery, ev, grid, stores>>

ReadPointAnywhere(s) == TRUE

\* where the event loop can serve a request: update_loop has one await, the
\* asyncio.sleep(1.0) at the end of a tick
ReadPoint(s) == s.pc = "sleep"

\* a read of the holding registers of one unit, served by the event loop
ModbusRead ==
    /\ ReadPoint(srv)
    /\ \E u \in Units :
          op' = [name |-> "read", prev |-> Counters,
                 unit |-> u, cells |-> GetValues(stores[u])]
    /\ UNCHANGED <<codec, battery, ev, grid, clock, srv, stores>>

\* connect_vehicle, disconnect_vehicle, pause_charging, resume_charging
\* called between two ticks
EvApiCall ==
    /\ srv.pc = "sleep"
    /\ srv.api < MaxApiCalls
    /\ \/ \E rsoc \in ArrivalSocs :
             /\ ev' = ConnectVehicle(ev, None, None, clock.t, rsoc)
             /\ op' = Did("connect")
       \/ ev' = DisconnectVehicle(ev) /\ op' = Did("disconnect")
       \/ ev' = PauseCharging(ev) /\ op' = Did("pause")
       \/ ev' = ResumeCharging(ev) /\ op' = Did("resume")
    /\ srv' = [srv EXCEPT !.api = @ + 1]
    /\ UNCHANGED <<codec, battery, grid, clock, stores>>

\* on_connect (rc = 0) and on_disconnect, in the MQTT client's thread
MqttConnect ==
    /\ srv.pc = "publish"
    /\ ~srv.mqtt_connected
    /\ srv' = [srv EXCEPT !.mqtt_connected = TRUE]
    /\ op' = Did("on_connect")
    /\ UNCHANGED <<codec, battery, ev, grid, clock, stores>>

MqttDisconnect ==
    /\ srv.pc = "publish"
    /\ srv.mqtt_connected
    /\ srv' = [srv EXCEPT !.mqtt_connected = FALSE]
    /\ op' = Did("on_disconnect")
    /\ UNCHANGED <<codec, battery, ev, grid, clock, stores>>

NextTick ==
    \/ TickSolar \/ TickEv \/ TickBattery \/ TickGrid \/ TickPublish
    \/ TickWake \/ ModbusRead \/ MqttConnect \/ MqttDisconnect

SpecTick == InitTick /\ [][NextTick]_vars

\* the event loop runs the tick task whenever it is ready: every step of a
\* tick, and the return of asyncio.sleep, is taken if it stays enabled
TickStep ==
    TickSolar \/ TickEv \/ TickBattery \/ TickGrid \/ TickPublish \/ TickWake

\* a step of the tick task is enabled unless the task sleeps after its
\* last tick
TickReady ==
    \/ srv.pc \in {"solar", "ev", "battery", "grid", "publish"}
    \/ srv.pc = "sleep" /\ srv.tick < MaxTicks

\* weak fairness of the tick task, WF_vars(TickStep), written out: the steps
\* of TickStep are the steps that change srv.pc, and TickReady is
\* ENABLED TickStep
SpecTickLive ==
    SpecTick /\ ([]<>(~TickReady) \/ []<><<srv'.pc # srv.pc>>_vars)

CancelPointAnywhere(s) == TRUE

\* where update_task.cancel() reaches the tick task: at its only await, the
\* asyncio.sleep between two ticks, or before the task has run its first
\* step (run() and the tick task share one event loop, so run() executes
\* only while the tick task is suspended)
CancelPoint(s) ==
    \/ s.pc = "sleep"
    \/ s.pc = "solar" /\ s.tick = 1

TaskLeftRunning(pc) == pc

\* update_task.cancel(): the tick task ends with CancelledError
TaskAfterCancel(pc) == "cancelled"

\* run(): StartAsyncTcpServer raises; except Exception: log,
\* update_task.cancel(), raise
ListenerRaises ==
    /\ srv.listener = "serving"
    /\ CancelPoint(srv)
    /\ srv' = [srv EXCEPT !.listener = "failed", !.pc = TaskAfterCancel(@)]
    /\ op' = Did("listener_error")
    /\ UNCHANGED <<codec, battery, ev, grid, clock, stores>>

NextRun == NextTick \/ ListenerRaises

\* the server with a listener that may fail
SpecRun == InitTick /\ [][NextRun]_vars

\* the server with a caller of the EV charger API in the same event loop
NextTickApi == NextTick \/ EvApiCall

SpecTickApi == InitTick /\ [][NextTickApi]_vars

----------------------------------------------------------------------------
(* Specification of publish_telemetry, statement by statement, beside the   *)
(* MQTT client's network thread (loop_start), which calls on_connect and    *)
(* on_disconnect at any time.  srv.pc is the position of the tick task:     *)
(* "check" before `if not self.mqtt_connected`, "publish" before the        *)
(* publish call of the topic number srv.next, "sleep" after the function.   *)

\* telemetry.items() in the order of the dict of update_loop, then the
\* system status
DeviceTopics == <<"solar", "battery", "grid", "ev">>
Topics == {"solar", "battery", "grid", "ev", "system"}
TopicAt(i) == IF i <= Len(DeviceTopics) THEN DeviceTopics[i] ELSE "system"
NoneSent == [t \in Topics |-> 0]

InitPublish ==
    /\ \E c \in BOOLEAN :
          srv = [pc |-> "check", tick |-> 1, mqtt_connected |-> c, next |-> 1,
                 sent |-> NoneSent, skipped |-> FALSE, errors |-> 0]
    /\ op = [name |-> "init", topic |-> "none", marked_connected |-> FALSE]
    /\ codec = Unused /\ battery = Unused /\ ev = Unused /\ grid = Unused
    /\ clock = Unused /\ stores = Unused

\* if not self.mqtt_connected: return
PublishCheck ==
    /\ srv.pc = "check"
    /\ srv' = IF srv.mqtt_connected
              THEN [srv EXCEPT !.pc = "publish", !.next = 1]
              ELSE [srv EXCEPT !.pc = "sleep", !.skipped = TRUE]
    /\ op' = [name |-> "check", topic |-> "none",
              marked_connected |-> srv.mqtt_connected]
    /\ UNCHANGED <<codec, battery, ev, grid, clock, stores>>

\* self.mqtt_client.publish(topic, payload, qos=1), for the devices and then
\* for the system status; when it raises, the error is logged and the rest
\* is left out
PublishMessage ==
    /\ srv.pc = "publish"
    /\ \E raise \in BOOLEAN :
          IF raise
          THEN /\ srv' = [srv EXCEPT !.pc = "sleep", !.errors = @ + 1]
               /\ op' = [name |-> "raise", topic |-> TopicAt(srv.next),
                         marked_connected |-> srv.mqtt_connected]
          ELSE /\ srv' = [srv EXCEPT
                             !.sent[TopicAt(srv.next)] = @ + 1,
                             !.next = @ + 1,
                             !.pc = IF srv.next > Len(DeviceTopics)
                                    THEN "sleep" ELSE "publish"]
               /\ op' = [name |-> "publish", topic |-> TopicAt(srv.next),
                         marked_connected |-> srv.mqtt_connected]
    /\ UNCHANGED <<codec, battery, ev, grid, clock, stores>>

\* the next tick reaches publish_telemetry
PublishNextTick ==
    /\ srv.pc = "sleep"
    /\ srv.tick < MaxTicks
    /\ srv' = [srv EXCEPT !.pc = "check", !.tick = @ + 1, !.next = 1,
                          !.sent = NoneSent, !.skipped = FALSE]
    /\ op' = [name |-> "tick", topic |-> "none",
              marked_connected |-> srv.mqtt_connected]
    /\ UNCHANGED <<codec, battery, ev, grid, clock, stores>>

\* on_connect with rc = 0, in the network thread
OnConnect ==
    /\ ~srv.mqtt_connected
    /\ srv' = [srv EXCEPT !.mqtt_connected = TRUE]
    /\ op' = [name |-> "on_connect", topic |-> "none", marked_connected |-> TRUE]
    /\ UNCHANGED <<codec, battery, ev, grid, clock, stores>>

\* on_disconnect, in the network thread
OnDisconnect ==
    /\ srv.mqtt_connected
    /\ srv' = [srv EXCEPT !.mqtt_connected = FALSE]
    /\ op' = [name |-> "on_disconnect", topic |-> "none",
              marked_connected |-> FALSE]
    /\ UNCHANGED <<codec, battery, ev, grid, clock, stores>>

NextPublish ==
    \/ PublishCheck \/ PublishMessage \/ PublishNextTick
    \/ OnConnect \/ OnDisconnect

SpecPublish == InitPublish /\ [][NextPublish]_vars

----------------------------------------------------------------------------
(* Claims about the codec *)

\* C9: every signed 32-bit value encoded with _int32_to_registers and every
\* unsigned 32-bit value encoded with _uint32_to_registers is returned by
\* decoding the (high, low) pair with the matching signedness.
C9_RoundTrip ==
    (codec.pc = "decoded" /\ InRange(codec.kind, codec.value))
        => codec.decoded = codec.value

\* a negative int32 and a uint32 above 2^31 have both made the round trip
C9_Witness ==
    /\ codec.pc = "decoded"
    /\ InRange(codec.kind, codec.value)
    /\ \/ codec.kind = "int32" /\ codec.value.hi = -(Word \div 2)
       \/ codec.kind = "uint32" /\ codec.value.hi = Word - 1

\* C10: a value outside the representable range of its field is written as
\* the nearest representable bound, never wrapped modulo 2^32.
C10_ClampOnOverflow ==
    (codec.pc # "new" /\ ~InRange(codec.kind, codec.value))
        => codec.regs = SplitWords(ClampWide(codec.kind, codec.value))

\* C27: for every 32-bit value v, signed or unsigned, the cell at the lower
\* offset holds (v mod 2^32) div 2^16 and the cell at the next offset holds
\* (v mod 2^32) mod 2^16, a negative v being taken in two's complement (as
\* a word pair: hi mod 2^16 and lo).
C27_HighWordFirst ==
    (/\ codec.pc # "new"
     /\ codec.value.hi >= -(Word \div 2) /\ codec.value.hi < Word)
        => /\ codec.hr[0] = codec.value.hi % Word
           /\ codec.hr[1] = codec.value.lo

\* -65531 written with the signed encoder: 0xFFFF then 0x0005
C27_Witness ==
    /\ codec.pc = "encoded" /\ codec.kind = "int32"
    /\ codec.value = [hi |-> -1, lo |-> 5]
    /\ codec.hr[0] = Word - 1 /\ codec.hr[1] = 5

----------------------------------------------------------------------------
(* Claims about the battery *)

\* C1: for any initial SOC and any sequence of update and set_soc calls, the
\* battery SOC is within [min_soc, max_soc] in every observable state.
C1_SocWithinBounds == battery.soc >= MinSoc /\ battery.soc <= MaxSoc

\* an update whose energy would have carried the SOC past a bound
C1_Witness ==
    /\ op.name = "update"
    /\ op.dt > 0
    /\ \/ /\ op.requested < 0
          /\ op.before.soc + SocOfEnergy(EnergyChange(op.before, op.requested, op.dt)) > MaxSoc
       \/ /\ op.requested > 0
          /\ op.before.soc - SocOfEnergy(EnergyChange(op.before, op.requested, op.dt)) < MinSoc

\* C8: the energy implied by the reported power over dt at the applied
\* efficiency equals the SOC change times capacity (to the resolution of the
\* SOC), and at the SOC boundary the reported power is zero.
C8_PowerMatchesSocChange ==
    op.name = "update" =>
        /\ Abs(Abs(battery.soc - op.before.soc)
               - SocOfEnergy(EnergyChange(op.before, op.requested, op.dt))) <= 1
        /\ (battery.soc \in {MinSoc, MaxSoc} /\ battery.soc # op.before.soc)
              => battery.power = 0

\* the SOC rise, in SOC units, of n seconds of charging at 3 kW:
\* n * 3000 * 0.95 / 3600 / capacity_Wh * 100 percentage points
\* (100 * SocUnit / (100 * 3600) reduced to 250 / 9)
C16_ExpectedRise(n) ==
    (n * 3000 * (CHARGE_EFFICIENCY \div 100) * 250) \div (9 * BATTERY_CAPACITY_WH)

\* C16: from 50 % SOC at a temperature inside the optimal band, every one of
\* n consecutive update(-3 kW, 1 s) calls delivers the full -3 kW at the
\* efficiency 0.95, and after them the SOC has risen by
\* n * 3000 * 0.95 / 3600 / capacity_Wh * 100 points, one SOC unit of
\* rounding allowed per call (n = 10 in the example).
C16_TenChargeTicks ==
    (op.name = "update" /\ op.requested = -30000) =>
        /\ battery.power = -30000
        /\ OPTIMAL_TEMP_MIN <= op.before.temperature
        /\ op.before.temperature <= OPTIMAL_TEMP_MAX
        /\ GetEfficiency(op.before, TRUE) = CHARGE_EFFICIENCY
        /\ Abs(battery.soc - (50 * SocUnit + C16_ExpectedRise(op.n))) <= op.n

C16_Witness ==
    /\ op.name = "update" /\ op.requested = -30000 /\ op.n = 10
    /\ battery.soc > 50 * SocUnit + 5000

\* the derated limit (dW) of a direction: the maximum power, times
\* (100 - SOC) / 10 when charging above 90 % or SOC / 15 when discharging
\* below 15 %, times 0.5, 0.8, 0.3 or 0.7 above 40, above 35, below 5 or
\* below 10 degrees
C29_DeratedLimit(b, is_charging) ==
    LET by_soc ==
            IF is_charging /\ b.soc > 90 * SocUnit
            THEN ScaleE4(BATTERY_MAX_POWER,
                         (100 * SocUnit - b.soc) \div (SocUnit \div 1000))
            ELSE IF ~is_charging /\ b.soc < 15 * SocUnit
            THEN ScaleE4(BATTERY_MAX_POWER, b.soc \div ((15 * SocUnit) \div E4))
            ELSE BATTERY_MAX_POWER
        by_temp ==
            IF b.temperature > 400 THEN 5000
            ELSE IF b.temperature > 350 THEN 8000
            ELSE IF b.temperature < 50 THEN 3000
            ELSE IF b.temperature < 100 THEN 7000
            ELSE E4
    IN  ScaleE4(by_soc, by_temp)

\* C29: for every update(requested_power, dt) the actual power has the sign
\* of the request or is 0, its magnitude is at most the magnitude of the
\* request and at most the derated limit of its direction, and it is 0 when
\* charging at SOC >= max_soc or discharging at SOC <= min_soc.
C29_ActualPowerWithinLimits ==
    op.name = "update" =>
        IF op.requested < 0
        THEN /\ battery.power <= 0
             /\ battery.power >= op.requested
             /\ -battery.power <= C29_DeratedLimit(op.before, TRUE)
             /\ op.before.soc >= MaxSoc => battery.power = 0
        ELSE /\ battery.power >= 0
             /\ battery.power <= op.requested
             /\ battery.power <= C29_DeratedLimit(op.before, FALSE)
             /\ op.before.soc <= MinSoc => battery.power = 0

\* a charge request of 6 kW above 90 % SOC, cut to the derated limit
C29_Witness ==
    /\ op.name = "update" /\ op.requested = -60000
    /\ op.before.soc > 90 * SocUnit /\ op.before.soc < MaxSoc
    /\ battery.power < 0
    /\ battery.power > -BATTERY_MAX_POWER
    /\ -battery.power = C29_DeratedLimit(op.before, TRUE)

----------------------------------------------------------------------------
(* Claims about the EV charger *)

\* C5: after any update() in which the vehicle is connected, the status was
\* Charging and the vehicle SOC is at or above the target SOC, the charging
\* power is 0 and the status is Finishing.
C5_FinishingAtTarget ==
    (/\ op.name = "update"
     /\ op.before.vehicle_connected /\ ev.vehicle_connected
     /\ op.before.status = CHARGING
     /\ ev.vehicle_soc >= ev.vehicle_target_soc)
        => (ev.power = 0 /\ ev.status = FINISHING)

\* C6: after an explicit disconnect_vehicle() no later update() reconnects
\* the vehicle, and after an explicit connect_vehicle() no later update()
\* disconnects it, whatever the hour is.
C6_ExplicitCallsPrecede ==
    op.name = "update" =>
        /\ op.explicit = "disconnect" => ~ev.vehicle_connected
        /\ op.explicit = "connect" => ev.vehicle_connected

\* C15: a vehicle connected below its target, that stays connected and is
\* not paused, reaches Finishing after finitely many updates of positive
\* step, whatever target connect_vehicle took.  Stated on one update: from
\* Charging below the target, an update of positive step that keeps the
\* vehicle connected ends in Finishing or leaves the SOC strictly higher; a
\* state where it does neither is one the updates never leave.
C15_UpdateAdvancesCharge ==
    (/\ op.name = "update"
     /\ op.before.vehicle_connected /\ ev.vehicle_connected
     /\ op.before.status = CHARGING
     /\ op.before.vehicle_soc < op.before.vehicle_target_soc
     /\ ev.last_update > op.before.last_update)
        => \/ ev.status = FINISHING /\ ev.power = 0
           \/ ev.vehicle_soc > op.before.vehicle_soc

\* get_status(): 'session_energy_wh': round(self.session_energy_wh, 1), in
\* tenths of a watt-hour
ReportedSessionEnergy(e) == RoundTenths(e.session_energy, 36000)

\* C17: disconnect_vehicle() called with a vehicle connected (Charging,
\* Suspended or Finishing) leaves the charger Available with power 0 and
\* no vehicle, the session start cleared, and the session energy of the
\* ended session no longer reported by get_status.
C17_DisconnectEndsSession ==
    (op.name = "disconnect" /\ op.before.vehicle_connected) =>
        /\ ev.status = AVAILABLE
        /\ ev.power = 0
        /\ ~ev.vehicle_connected
        /\ ev.session_start = None
        /\ ReportedSessionEnergy(ev) = 0

\* C18: pause_charging() changes the state only from Charging, to
\* Suspended with power 0, and leaves every other state as it is;
\* resume_charging() changes the state only from a Suspended status with
\* the SOC below the target, to Charging, and leaves every other state as
\* it is.
C18_PauseResumeGuards ==
    /\ op.name = "pause" =>
          IF op.before.status = CHARGING
          THEN ev = [op.before EXCEPT !.status = SUSPENDED_EVSE, !.power = 0]
          ELSE ev = op.before
    /\ op.name = "resume" =>
          IF /\ op.before.status \in {SUSPENDED_EVSE, SUSPENDED_EV}
             /\ op.before.vehicle_soc < op.before.vehicle_target_soc
          THEN ev = [op.before EXCEPT !.status = CHARGING]
          ELSE ev = op.before

\* a resume that ends a pause
C18_Witness ==
    /\ op.name = "resume"
    /\ op.before.status = SUSPENDED_EVSE /\ op.before.power = 0
    /\ ev.status = CHARGING

\* C19: after update() the charging power is at most the rated power and
\* at most current_limit * line voltage * sqrt(3), whatever the SOC, the
\* current limit and the jitter.
C19_PowerWithinLimits ==
    op.name = "update" =>
        /\ ev.power <= EV_MAX_POWER
        /\ ev.power <= MulDiv(ev.current_limit, LINE_VOLTAGE_SQRT3, 1000)

\* the power (dW) that a current limit c (mA) allows at the SOC s with the
\* jitter j: c clamped to [MIN_CURRENT, max_current], times the line
\* voltage and sqrt(3), tapered above 80 %, capped at the rated power
C20_PowerOfLimit(c, s, j) ==
    LET limit == IF c < MIN_CURRENT THEN MIN_CURRENT
                 ELSE IF c > MaxCurrent THEN MaxCurrent ELSE c
        base == MulDiv(limit, LINE_VOLTAGE_SQRT3, 1000)
        factor == (100 * SocUnit - s) \div ((20 * SocUnit) \div E4)
        tapered == IF s > 80 * SocUnit THEN ScaleE4(base, Max(1000, factor))
                   ELSE base
    IN  MulDiv(Min(tapered, EV_MAX_POWER), j, 1000)

\* C20: the update() that follows set_current_limit(c), with the charger
\* Charging below the target before it and Charging after it, computes its
\* power from c clamped to [MIN_CURRENT, max_current], also above 80 % SOC.
C20_NextUpdateUsesNewLimit ==
    (/\ op.name = "update" /\ op.limit_set # None
     /\ op.before.vehicle_connected /\ op.before.status = CHARGING
     /\ op.before.vehicle_soc < op.before.vehicle_target_soc
     /\ ev.status = CHARGING)
        => \E j \in PowerVariation :
              ev.power = C20_PowerOfLimit(Val(op.limit_set), op.before.vehicle_soc, j)

\* the limit lowered to 10 A in the tapered region
C20_Witness ==
    /\ op.name = "update" /\ op.limit_set = Some(10000)
    /\ op.before.current_limit = 10000
    /\ op.before.status = CHARGING /\ ev.status = CHARGING
    /\ op.before.vehicle_soc > 80 * SocUnit
    /\ ev.power > 0

\* C30: in every state of the charger between two operations the status is
\* Available, Charging, SuspendedEVSE or Finishing; Preparing, SuspendedEV,
\* Reserved, Unavailable and Faulted are not reached by any sequence of
\* connect, disconnect, pause, resume, set_current_limit and update.
C30_StatusesReached ==
    /\ ev.status \in {AVAILABLE, CHARGING, SUSPENDED_EVSE, FINISHING}
    /\ ev.status \notin {PREPARING, SUSPENDED_EV, RESERVED, UNAVAILABLE, FAULTED}

\* connect_vehicle, which passes through Preparing, has returned
C30_Witness ==
    /\ op.name = "connect" /\ op.before.status = AVAILABLE
    /\ ev.status = CHARGING

\* C33: in every state of the charger a vehicle is connected if and only if
\* the status is not Available, a session start exists if and only if a
\* vehicle is connected, and the power is above 0 only when the status is
\* Charging.
C33_ConnectionInvariants ==
    /\ ev.vehicle_connected <=> ev.status # AVAILABLE
    /\ ev.session_start # None <=> ev.vehicle_connected
    /\ ev.power > 0 => ev.status = CHARGING

\* a charging vehicle, then a paused one
C33_Witness ==
    /\ op.name = "pause" /\ op.before.power > 0
    /\ ev.vehicle_connected /\ ev.status = SUSPENDED_EVSE /\ ev.power = 0

\* C34: a charger in status Finishing that runs update, pause_charging,
\* resume_charging or set_current_limit is in status Finishing with power 0
\* afterwards, unless the update was one whose schedule check disconnected
\* the vehicle; the status is left only by a disconnect or a connect.
C34_FinishingIsAbsorbing ==
    (op.before.status = FINISHING
       /\ op.name \in {"update", "pause", "resume", "set_current_limit"})
    => \/ ev.status = FINISHING /\ ev.power = 0 /\ ev.vehicle_connected
       \/ /\ op.name = "update" /\ ShouldDisconnect(clock.hour)
          /\ ev.status = AVAILABLE /\ ~ev.vehicle_connected

\* a resume on a finished session
C34_Witness ==
    /\ op.name = "resume" /\ op.before.status = FINISHING
    /\ ev.status = FINISHING /\ op.n >= 3

\* C38: an update() of a charger in status Suspended whose schedule check
\* does not disconnect the vehicle reports power 0 and leaves the vehicle
\* SOC, the session energy and the total energy as they were.
C38_SuspendedUpdateIsIdle ==
    (op.name = "update" /\ op.before.status \in {SUSPENDED_EVSE, SUSPENDED_EV}
       /\ ~ShouldDisconnect(clock.hour))
    => /\ ev.power = 0
       /\ ev.vehicle_soc = op.before.vehicle_soc
       /\ ev.session_energy = op.before.session_energy
       /\ ev.total_energy = op.before.total_energy
       /\ ev.status = op.before.status

\* a session that has charged, is paused, and is updated ten minutes later
C38_Witness ==
    /\ op.name = "update" /\ op.before.status = SUSPENDED_EVSE
    /\ ~ShouldDisconnect(clock.hour)
    /\ ev.session_energy > 0 /\ ev.last_update > op.before.last_update
    /\ ev.vehicle_soc < ev.vehicle_target_soc

\* C39: the vehicle SOC is within 0..100 % in every state, and an update,
\* pause_charging, resume_charging or set_current_limit that starts and
\* ends with the vehicle connected does not lower it.
C39_SocBoundedMonotone ==
    /\ ev.vehicle_soc >= 0 /\ ev.vehicle_soc <= 100 * SocUnit
    /\ (op.name \in {"update", "pause", "resume", "set_current_limit"}
          /\ op.before.vehicle_connected /\ ev.vehicle_connected)
       => ev.vehicle_soc >= op.before.vehicle_soc

\* an update that has raised the SOC of a connected vehicle
C39_Witness ==
    /\ op.name = "update" /\ op.before.vehicle_connected /\ ev.vehicle_connected
    /\ ev.vehicle_soc > op.before.vehicle_soc
    /\ ev.vehicle_soc < 100 * SocUnit

----------------------------------------------------------------------------
(* Claims about the tick loop *)

\* load - solar_power - battery_power of the tick just completed (dW)
TickBalance == srv.total_load - srv.solar_power * 10 - srv.battery_power * 10

TickCompleted == srv.pc = "sleep" /\ srv.completed = srv.tick

\* C2 (as stated): on every completed tick the grid power reported differs
\* from load - solar_power - battery_power by less than 1 W, for all values
\* of EV, solar and battery power.
C2_BalanceIdentity ==
    TickCompleted => Abs(srv.grid_power - TickBalance) < 10

\* C2 (amended): on every completed tick the grid power reported differs
\* from load - solar_power - battery_power by less than 1 W when that
\* balance is within the grid connection limit, and is the limit, with the
\* sign of the balance, when it is not.
C2_BalanceWithinLimit ==
    TickCompleted =>
        IF Abs(TickBalance) <= MAX_GRID_POWER
        THEN Abs(srv.grid_power - TickBalance) < 10
        ELSE srv.grid_power = IF TickBalance > 0 THEN MAX_GRID_POWER
                              ELSE -MAX_GRID_POWER

\* a completed tick with the vehicle charging, the battery active, and a
\* balance inside the limit that is not a whole number of watts
C2_Witness ==
    /\ TickCompleted
    /\ srv.ev_power > 0
    /\ srv.battery_power # 0
    /\ Abs(TickBalance) < MAX_GRID_POWER
    /\ srv.grid_power # TickBalance

\* C3: a read of a unit returns the cells of a single write of that unit,
\* and the high and low cell of its 32-bit power field decode to the power
\* written by that tick.
C3_ReadSeesSingleWrite ==
    op.name = "read" =>
        /\ op.cells = srv.written[op.unit]
        /\ op.unit = 1 => DecodeInt32(<<op.cells[0], op.cells[1]>>) = Wide(srv.solar_power)
        /\ op.unit = 2 => DecodeInt32(<<op.cells[1], op.cells[2]>>) = Wide(BatteryPowerW(battery))
        /\ op.unit = 3 => DecodeInt32(<<op.cells[0], op.cells[1]>>) = Wide(IntOf(grid.power, 10))
        /\ op.unit = 4 => DecodeInt32(<<op.cells[0], op.cells[1]>>) = Wide(IntOf(ev.power, 10))

\* a read of the battery unit after the second tick, the battery charging:
\* the power field is negative, its two cells are both non-zero
C3_Witness ==
    /\ op.name = "read"
    /\ op.unit = 2
    /\ srv.completed = 2
    /\ op.cells[1] = Word - 1
    /\ op.cells[2] # 0

\* C4: when the update of one device raises during a tick, the updates of
\* the other three devices still run in that tick and the failure is
\* recorded.
C4_FailureIsolated ==
    (srv.pc = "sleep" /\ srv.failed # "none") =>
        /\ srv.ran = Devices \ {srv.failed}
        /\ srv.errors > 0

\* C7: no energy counter (grid import and export, battery charged and
\* discharged, solar accumulator, EV session energy) is lower after an
\* operation than it was before it.
C7_CountersNeverDecrease ==
    /\ grid.import_energy >= op.prev.import
    /\ grid.export_energy >= op.prev.export
    /\ battery.total_charged >= op.prev.charged
    /\ battery.total_discharged >= op.prev.discharged
    /\ srv.solar_energy >= op.prev.solar
    /\ ev.session_energy >= op.prev.session

\* round() of a quantity held in units of 1/q to a whole number (half away
\* from zero)
Rounded(x, q) ==
    IF x >= 0 THEN (x + q \div 2) \div q ELSE -((-x + q \div 2) \div q)

\* C11: after each completed tick every field of a bank decodes to the
\* value the tick wrote for it, rounded to the scale of the field: whole
\* percent for the SOC cells, whole watts for the power fields, one decimal
\* for the x10 cells, whole watt-hours for the energy fields.
C11_DecodeIsRounded ==
    TickCompleted =>
        /\ stores[2][0] = Rounded(battery.soc, SocUnit)
        /\ DecodeInt32(<<stores[2][1], stores[2][2]>>) = Wide(Rounded(battery.power, 10))
        /\ stores[2][3] = Rounded(battery.voltage, 10)
        /\ stores[2][5] = battery.temperature
        /\ DecodeInt32(<<stores[3][0], stores[3][1]>>) = Wide(Rounded(grid.power, 10))
        /\ stores[3][4] = grid.voltage_l1
        /\ stores[3][10] = Rounded(grid.frequency, 10)
        /\ DecodeUint32(<<stores[3][11], stores[3][12]>>) = Wide(Rounded(grid.import_energy, 36000))
        /\ DecodeInt32(<<stores[4][0], stores[4][1]>>) = Wide(Rounded(ev.power, 10))
        /\ DecodeUint32(<<stores[4][2], stores[4][3]>>) = Wide(Rounded(ev.session_energy, 36000))
        /\ stores[4][4] = Rounded(ev.vehicle_soc, SocUnit)
        /\ stores[4][8] = Rounded(ev.current_limit, 100)
        /\ DecodeInt32(<<stores[1][0], stores[1][1]>>) = Wide(srv.solar_power)
        /\ DecodeUint32(<<stores[1][2], stores[1][3]>>) = Wide(Rounded(srv.solar_energy, 3600))

\* C12: whether the broker is disconnected or publish() raises, the tick
\* that follows tick n starts one period later and runs its first device
\* update.
C12_NextTickRuns ==
    \A n \in 1 .. MaxTicks - 1 :
        (srv.tick = n /\ srv.pc = "publish")
            ~> (srv.tick = n + 1 /\ op.name = "solar" /\ clock.t = n)

\* tick 2 has run its solar update after a tick 1 whose publish raised with
\* the broker connected
C12_Witness ==
    /\ srv.tick = 2
    /\ op.name = "solar"
    /\ srv.completed = 1
    /\ srv.mqtt_connected
    /\ srv.published = 0

\* C21: in every tick the battery is updated before the grid; the battery
\* is asked for load - solar_power, and the grid update is passed
\* load - solar_power - battery power, as whole watts, where the battery
\* power is the one the battery returned in this tick, not the power asked
\* of it and not the power of an earlier tick.
C21_BatteryBeforeGrid ==
    "grid" \in srv.ran =>
        /\ "battery" \in srv.ran
        /\ srv.total_load = BASE_LOAD + ev.power
        /\ srv.battery_request = srv.total_load - srv.solar_power * 10
        /\ srv.battery_power = BatteryPowerW(battery)
        /\ srv.grid_request =
              TruncDeci(srv.total_load - srv.solar_power * 10
                        - BatteryPowerW(battery) * 10) * 10

\* the second tick, where the battery returns less than it is asked for and
\* the grid update is passed the rest
C21_Witness ==
    /\ srv.tick = 2 /\ "grid" \in srv.ran
    /\ battery.power # 0
    /\ battery.power # srv.battery_request
    /\ srv.grid_request # 0

\* C22: the cancellation of the tick task takes effect between two ticks
\* only: once the task is cancelled, the last tick it began has run all its
\* steps or was ended by an exception of its own (or no tick was begun),
\* and every unit's bank is the whole bank of one register write.
C22_CancelBetweenTicks ==
    srv.pc = "cancelled" =>
        /\ \/ srv.completed = srv.tick /\ srv.ran = Devices
           \/ srv.failed # "none"
           \/ srv.tick = 1 /\ srv.ran = {} /\ stores = CreateStores
        /\ \A u \in Units : stores[u] = srv.written[u]

\* cancelled after the second tick was completed
C22_Witness ==
    /\ srv.pc = "cancelled" /\ srv.tick = 2 /\ srv.completed = 2
    /\ \A u \in Units : stores[u] # CreateStores[u]

\* C23: when the update of a unit raises during a tick, the bank of that
\* unit holds exactly the cells of its last successful write (the bank as
\* constructed if there was none); every bank is always the whole list of
\* one successful write, and that is what a read returns.
C23_BankKeepsLastWrite ==
    /\ srv.failed # "none" =>
          /\ srv.failed \notin srv.ran
          /\ stores[UnitOf(srv.failed)] = srv.written[UnitOf(srv.failed)]
    /\ \A u \in Units : stores[u] = srv.written[u]
    /\ (op.name = "read" /\ srv.failed # "none") => op.cells = srv.written[op.unit]

\* the grid update raises in the second tick; a read of the grid unit
\* returns the cells written in the first
C23_Witness ==
    /\ srv.tick = 2 /\ srv.failed = "grid"
    /\ op.name = "read" /\ op.unit = 3
    /\ op.cells # CreateStores[3]

\* C25: in a tick at most one message per device topic and at most one
\* system-status message is handed to the publisher, none is handed over
\* while the client is marked disconnected, and a skipped tick hands over
\* nothing, then or later.
C25_AtMostOncePerTick ==
    /\ \A t \in Topics : srv.sent[t] <= 1
    /\ op.name = "publish" => op.marked_connected
    /\ srv.skipped => srv.sent = NoneSent

\* C31: the telemetry of a tick is handed to the publisher only after the
\* banks of all four units have been written in that tick, and a tick ended
\* by an exception publishes nothing: whenever a tick has published, the
\* four banks are the ones written in that tick and hold the solar and
\* battery powers of the telemetry.
C31_PublishAfterAllWrites ==
    /\ srv.published = srv.tick =>
          /\ srv.ran = Devices /\ srv.failed = "none"
          /\ \A u \in Units : stores[u] = srv.written[u]
          /\ DecodeInt32(<<stores[1][0], stores[1][1]>>) = Wide(srv.solar_power)
          /\ DecodeInt32(<<stores[2][1], stores[2][2]>>) = Wide(srv.battery_power)
    /\ srv.failed # "none" => srv.published < srv.tick
    /\ op.name = "publish" => srv.ran = Devices

\* the second tick has published
C31_Witness ==
    /\ op.name = "publish" /\ srv.tick = 2 /\ srv.published = 2
    /\ srv.battery_power # 0

\* C32: after any sequence of ticks every cell of every unit's bank holds
\* an integer in 0..65535.
C32_CellsAre16Bit ==
    \A u \in Units : \A i \in DOMAIN stores[u] :
        stores[u][i] >= 0 /\ stores[u][i] < Word

\* C35: a read that is served when a tick has completed and no later tick
\* has failed finds the four banks as that one tick wrote them: no read is
\* served between the first and the last bank write of a tick.
C35_ReadSeesOneTick ==
    (op.name = "read" /\ srv.completed >= 1 /\ srv.failed = "none")
    => /\ \A u \in Units : srv.wtick[u] = srv.completed
                           /\ stores[u] = srv.written[u]
       /\ op.cells = GetValues(srv.written[op.unit])
       /\ srv.ran = Devices

\* a read of the battery bank after the second tick
C35_Witness ==
    /\ op.name = "read" /\ op.unit = 2 /\ srv.completed = 2 /\ srv.tick = 2
    /\ srv.written[2] # CreateStores[2]

\* C36: at the end of every completed tick whose grid request is within the
\* connection capacity, the home consumption computed from the telemetry of
\* the tick is the 800 W base load to within 1 W.
C36_ConsumptionIsBaseLoad ==
    (TickCompleted /\ Abs(srv.grid_request) <= MAX_GRID_POWER)
    => Abs(HomeConsumption - BASE_LOAD \div 10) <= 1

\* a tick with a charging vehicle, a discharging battery and grid import,
\* where the truncation of the grid request takes a watt off
C36_Witness ==
    /\ TickCompleted /\ Abs(srv.grid_request) <= MAX_GRID_POWER
    /\ srv.ev_power > 0 /\ srv.battery_power > 0 /\ srv.grid_power > 0
    /\ HomeConsumption = BASE_LOAD \div 10 - 1

\* C37: at the end of every tick whose solar update has added the energy of
\* a power above 0 to the accumulator, last_update is the time of that tick, so that the next tick
\* integrates only the interval that follows; this holds also when a later
\* device update of the tick has raised.
C37_LastUpdateFollowsIncrement ==
    (srv.pc = "sleep" /\ "solar" \in srv.ran /\ srv.solar_power > 0)
    => srv.last_update = clock.t

\* C24: when starting the listener raises, run() cancels the tick task and
\* raises the error again: the tick task is cancelled and nothing runs
\* after the failure, neither a tick nor a step of one.
C24_AbortOnListenerError ==
    srv.listener = "failed" =>
        /\ srv.pc = "cancelled"
        /\ op.name = "listener_error"

\* the listener fails after the first tick, with a second tick still due
C24_Witness ==
    /\ srv.listener = "failed" /\ srv.completed = 1 /\ srv.tick = 1
    /\ srv.tick < MaxTicks

----------------------------------------------------------------------------
(* Claims about the grid meter *)

\* C13: after update(net_power) the grid power is net_power when it lies
\* within [-max_power, +max_power], +max_power when it is above and
\* -max_power when it is below; |power| <= max_power in every state.
C13_GridPowerClamped ==
    /\ Abs(grid.power) <= MAX_GRID_POWER
    /\ op.name = "update" =>
          grid.power = IF op.net_power > MAX_GRID_POWER THEN MAX_GRID_POWER
                       ELSE IF op.net_power < -MAX_GRID_POWER THEN -MAX_GRID_POWER
                       ELSE op.net_power

\* update(30000 W) with a 25 kW connection: 25000 W is stored
C13_Witness ==
    /\ op.name = "update"
    /\ op.net_power = 300000
    /\ grid.power = MAX_GRID_POWER

\* C28: the mode reported after an update is 'importing' exactly when the
\* power is above 50 W, 'exporting' exactly when it is below -50 W, and
\* 'balanced' otherwise.
C28_ModeDeadband ==
    op.name = "update" =>
        /\ op.mode = "importing" <=> grid.power > 500
        /\ op.mode = "exporting" <=> grid.power < -500
        /\ op.mode = "balanced" <=> (grid.power >= -500 /\ grid.power <= 500)

\* an import of exactly 50 W is reported as balanced
C28_Witness ==
    /\ op.name = "update" /\ op.net_power = 500
    /\ grid.power = 500 /\ op.mode = "balanced"

----------------------------------------------------------------------------
(* Claims about the solar model *)

\* C14: calculate_power_output returns exactly 0 for every timestamp whose
\* computed solar elevation is <= 0, and a power >= 0 for every timestamp,
\* cloud cover, temperature and variation.
C14_NightFloor ==
    op.name = "calculate_power_output" =>
        /\ op.power >= 0
        /\ RawElevation(clock) <= 0 => op.power = 0

\* a call at night, and a call by day whose cloud cover of 2.0 makes the
\* cloud factor negative
C14_Witness ==
    /\ op.name = "calculate_power_output"
    /\ op.power = 0
    /\ \/ RawElevation(clock) < 0
       \/ RawElevation(clock) > 0 /\ op.cloud_cover = Some(2 * E4)

\* C26: with a fixed timestamp and a cloud cover supplied by the caller, two
\* calls of calculate_power_output from the same inputs return the same
\* power.
C26_SameInputsSamePower ==
    (/\ op.name = "calculate_power_output"
     /\ op.prev.name = "calculate_power_output"
     /\ op.prev.timestamp = clock
     /\ op.cloud_cover # None
     /\ op.prev.cloud_cover = op.cloud_cover)
        => op.power = op.prev.power
============================================================================
